---- MODULE Spec2Model ----
(***************************************************************************)
(* A model of volvisdata's market data acquisition                         *)
(* (src/volvisdata/market_data.py): Data.get_option_data, the yfinance     *)
(* fetcher, with its spot price fallback and its per-expiry loop;          *)
(* Data.extractoptions, the legacy fetcher over the provider's web pages;  *)
(* Data.trading_calendar and Data.process_df_option_data; and of the       *)
(* constructor and the visualize method of Volatility                      *)
(* (src/volvisdata/volatility.py).                                         *)
(*                                                                         *)
(* The provider (yfinance's Ticker, the web pages behind UrlOpener) is the *)
(* environment: the quote snapshot asset.info, the expiry tuple            *)
(* asset.options, the answer of asset.option_chain(expiry) and the answer  *)
(* to each page request are chosen by the actions' parameters and logged   *)
(* in info / chains.                                                       *)
(***************************************************************************)
EXTENDS Integers, Sequences, FiniteSets, TLC

VARIABLES
    pc,        \* where the call in progress stands
    error,     \* the exception that left the call, "none" if none
    info,      \* the provider's quote snapshot asset.info (a dict)
    chains,    \* expiry -> what the provider answered for it
    params,    \* the params dict
    tables,    \* the tables dict
    events,    \* what the run did to the outside, in order: page requests,
               \* timed waits, the rename, GraphData calls, messages
    data_dict, \* the data_dict attribute of the Volatility object
    env,       \* the machine: today's date, the holiday rules of its pandas
    first      \* what the invocation before this one left, on the same
               \* params and tables: an empty dict when there was none

vars == <<pc, error, info, chains, params, tables, events, data_dict, env, first>>

(***************************************************************************)
(* Bounds of the model.                                                    *)
(***************************************************************************)
\* the provider lists at most MaxExpiries expiries
MaxExpiries == 2
\* the provider returns at most MaxRows option rows over one run
MaxRows == 3

(***************************************************************************)
(* Python dicts: functions whose domain is the set of keys present.        *)
(***************************************************************************)
EmptyDict == [k \in {} |-> 0]

Has(d, k) == k \in DOMAIN d

Put(d, k, v) == [x \in (DOMAIN d) \cup {k} |-> IF x = k THEN v ELSE d[x]]

\* one entry of the log of what the run did to the outside
Event(op, url, secs) == [op |-> op, url |-> url, secs |-> secs]

(***************************************************************************)
(* Prices.  A quote field holds an integer; (bid + ask) / 2 is Python's    *)
(* true division, so a spot price is kept as a fraction in lowest terms    *)
(* with denominator 1 or 2.                                                *)
(***************************************************************************)
Number(v) == [num |-> v, den |-> 1]

Halve(n) == IF n % 2 = 0 THEN [num |-> n \div 2, den |-> 1] ELSE [num |-> n, den |-> 2]

Abs(x) == IF x < 0 THEN -x ELSE x

\* abs(mid - prev) / prev > 0.2 for mid = n / 2 and prev # 0, in exact
\* arithmetic: the quotient is abs(n - 2 prev) / (2 prev), never positive
\* for a negative prev.
DeviationExceeds(n, prev) == prev > 0 /\ 5 * Abs(n - 2 * prev) > 2 * prev

\* What the try / except KeyError cascade leaves: a value, or the exception
\* that propagates out of get_option_data.
Value(x) == [ok |-> TRUE, value |-> x]

Raise(e) == [ok |-> FALSE, exc |-> e]

\* A previousClose lookup inside the bid / ask try raises KeyError into the
\* same handler as a missing bid or ask; a zero previousClose divides by zero,
\* which no handler catches.
MidOrPreviousClose(q) ==
    IF q["previousClose"] = 0
    THEN Raise("ZeroDivisionError")
    ELSE IF DeviationExceeds(q["bid"] + q["ask"], q["previousClose"])
         THEN Value(Number(q["previousClose"]))
         ELSE Value(Halve(q["bid"] + q["ask"]))

\* the last fallback read with a default, so that nothing is raised
NavOrPreviousCloseDefaulted(q) ==
    IF Has(q, "navPrice") THEN Value(Number(q["navPrice"]))
    ELSE IF Has(q, "previousClose") THEN Value(Number(q["previousClose"]))
    ELSE Value(Number(0))

NavOrPreviousClose(q) ==
    IF Has(q, "navPrice") THEN Value(Number(q["navPrice"]))
    ELSE IF Has(q, "previousClose") THEN Value(Number(q["previousClose"]))
    ELSE Raise("KeyError")

spot_fallback(q) ==
    IF Has(q, "currentPrice") THEN Value(Number(q["currentPrice"]))
    ELSE IF Has(q, "bid") /\ Has(q, "ask") /\ Has(q, "previousClose")
         THEN MidOrPreviousClose(q)
         ELSE NavOrPreviousClose(q)

(***************************************************************************)
(* DataFrames: a set of column names and a sequence of rows, each row a    *)
(* function from the columns to the cell values.                           *)
(***************************************************************************)
EmptyFrame == [columns |-> {}, rows |-> <<>>]

NaN == [type |-> "float", text |-> "nan"]

\* df[col] = v, a scalar broadcast to every row
SetColumn(df, col, v) ==
    [columns |-> df.columns \cup {col},
     rows |-> [i \in 1..Len(df.rows) |->
                 [c \in df.columns \cup {col} |->
                     IF c = col THEN v ELSE df.rows[i][c]]]]

Reindex(row, cols) == [c \in cols |-> IF c \in DOMAIN row THEN row[c] ELSE NaN]

\* pd.concat([a, b]): the rows of a then those of b, over the union of the
\* columns, a column missing from one side filled with NaN
Concat(a, b) ==
    [columns |-> a.columns \cup b.columns,
     rows |-> [i \in 1..(Len(a.rows) + Len(b.rows)) |->
                 IF i <= Len(a.rows)
                 THEN Reindex(a.rows[i], a.columns \cup b.columns)
                 ELSE Reindex(b.rows[i - Len(a.rows)], a.columns \cup b.columns)]]

\* the rename with the strike entry left out of the mapping
ColumnNameWithoutStrike(c) ==
    CASE c = "lastPrice" -> "Last Price"
      [] c = "bid" -> "Bid"
      [] c = "ask" -> "Ask"
      [] c = "lastTradeDate" -> "Last Trade Date"
      [] c = "openInterest" -> "Open Interest"
      [] c = "volume" -> "Volume"
      [] c = "impliedVolatility" -> "Implied Volatility"
      [] OTHER -> c

\* the provider -> canonical column names of DataFrame.rename(columns=...)
ColumnName(c) ==
    CASE c = "lastPrice" -> "Last Price"
      [] c = "bid" -> "Bid"
      [] c = "ask" -> "Ask"
      [] c = "lastTradeDate" -> "Last Trade Date"
      [] c = "strike" -> "Strike"
      [] c = "openInterest" -> "Open Interest"
      [] c = "volume" -> "Volume"
      [] c = "impliedVolatility" -> "Implied Volatility"
      [] OTHER -> c

RenameColumns(df) ==
    [columns |-> {ColumnName(c) : c \in df.columns},
     rows |-> [i \in 1..Len(df.rows) |->
                 [c \in {ColumnName(k) : k \in df.columns} |->
                     df.rows[i][CHOOSE k \in df.columns : ColumnName(k) = c]]]]

(***************************************************************************)
(* Strike cells, as Python sees them: the class of the scalar that         *)
(* df['strike'][0] returns and the text str() gives for it.                *)
(***************************************************************************)
Cells ==
    { [type |-> "float", text |-> "100.5"],
      [type |-> "str", text |-> "-"] }

\* isinstance(x, (int, float, complex))
is_number(x) == x.type \in {"int", "float", "complex"}

\* pd.to_datetime(expiry).date(): the expiry identifier n stands for the
\* provider's text "2025-01-n"
to_date(expiry) == [year |-> 2025, month |-> 1, day |-> expiry]

(***************************************************************************)
(* What the provider can answer.                                           *)
(***************************************************************************)
CellSeqs(n) == UNION {[1..k -> Cells] : k \in 0..n}

\* a row set with a strike column
StrikeFrame(side, cells) ==
    [columns |-> {"contractSymbol", "strike"},
     rows |-> [i \in 1..Len(cells) |->
                 [c \in {"contractSymbol", "strike"} |->
                     IF c = "strike" THEN cells[i]
                     ELSE <<side, i>>]]]

\* a row set without the strike field
NoStrikeFrame(side, k) ==
    [columns |-> {"contractSymbol"},
     rows |-> [i \in 1..k |->
                 [c \in {"contractSymbol"} |-> <<side, i>>]]]

Frames(side, n) ==
    {StrikeFrame(side, s) : s \in CellSeqs(n)}
        \cup {NoStrikeFrame(side, k) : k \in 0..n}

ChainRaises == [raised |-> TRUE, calls |-> EmptyFrame, puts |-> EmptyFrame]

\* the answers of asset.option_chain(expiry) holding at most n rows
Chains(n) ==
    {ChainRaises} \cup
    UNION { { [raised |-> FALSE, calls |-> c, puts |-> p] :
                p \in Frames("P", n - Len(c.rows)) } :
            c \in Frames("C", n) }

\* the quote snapshots: each field absent or one of a few values
QuoteValues ==
    [currentPrice |-> {95}, bid |-> {100}, ask |-> {105, 140, 180},
     navPrice |-> {50}, previousClose |-> {0, 100}]

Quotes ==
    { q \in UNION { [ks -> UNION {QuoteValues[k] : k \in ks}] :
                      ks \in SUBSET DOMAIN QuoteValues } :
        \A k \in DOMAIN q : q[k] \in QuoteValues[k] }

(***************************************************************************)
(* The body of the loop over asset.options, for one expiry.                *)
(***************************************************************************)
\* The two ifs on one side: "ok" when the side is kept, "skip" when an if is
\* false and nothing is raised, "KeyError" when df['strike'] is missing.
check_side(df) ==
    IF Len(df.rows) = 0 THEN "skip"
    ELSE IF "strike" \notin df.columns THEN "KeyError"
    ELSE IF is_number(df.rows[1]["strike"]) THEN "ok"
    ELSE "skip"

Outcome(fd, frames, failed) == [full_data |-> fd, frames |-> frames, failed |-> failed]

\* the puts validated but left out of the concatenation
calls_then_puts_dropped(fd, expiry, calls, puts) ==
    IF check_side(puts) = "ok" \/ check_side(puts) = "KeyError"
    THEN Outcome(Concat(fd, SetColumn(calls, "Expiry", to_date(expiry))),
                 <<calls, puts>>, FALSE)
    ELSE Outcome(fd, <<calls>>, FALSE)

\* calls kept: the inner try on the puts
calls_then_puts(fd, expiry, calls, puts) ==
    IF check_side(puts) = "ok"
    THEN Outcome(Concat(fd, SetColumn(Concat(calls, puts), "Expiry", to_date(expiry))),
                 <<calls, puts>>, FALSE)
    ELSE IF check_side(puts) = "KeyError"
    THEN Outcome(Concat(fd, SetColumn(calls, "Expiry", to_date(expiry))),
                 <<SetColumn(calls, "Expiry", to_date(expiry))>>, FALSE)
    ELSE Outcome(fd, <<calls>>, FALSE)

\* the handler of the outer try: the puts alone.  frames is
\* params['option_dict'][expiry] as the try left it; frames[1] = puts raises
\* IndexError unless the list already holds two entries.
puts_only(fd, expiry, frames, puts) ==
    IF check_side(puts) = "ok"
    THEN IF Len(frames) >= 2
         THEN Outcome(Concat(fd, SetColumn(puts, "Expiry", to_date(expiry))),
                      <<frames[1], SetColumn(puts, "Expiry", to_date(expiry))>>, FALSE)
         ELSE Outcome(fd, frames, TRUE)
    ELSE IF check_side(puts) = "KeyError"
    THEN Outcome(fd, frames, TRUE)
    ELSE Outcome(fd, frames, FALSE)

expiry_body(fd, expiry, chain) ==
    LET calls == SetColumn(chain.calls, "Option Type", "call")
        puts == SetColumn(chain.puts, "Option Type", "put")
    IN  IF check_side(calls) = "ok"
        THEN calls_then_puts(fd, expiry, calls, puts)
        ELSE IF check_side(calls) = "KeyError"
        THEN puts_only(fd, expiry, <<>>, puts)
        ELSE Outcome(fd, <<>>, FALSE)

(***************************************************************************)
(* get_option_data, step by step.                                          *)
(***************************************************************************)
Processed == DOMAIN chains

RECURSIVE RowsReturned(_)
RowsReturned(es) ==
    IF es = {} THEN 0
    ELSE LET e == CHOOSE x \in es : TRUE
         IN  Len(chains[e].calls.rows) + Len(chains[e].puts.rows)
                 + RowsReturned(es \ {e})

Init ==
    /\ pc = "idle"
    /\ error = "none"
    /\ info = EmptyDict
    /\ chains = EmptyDict
    /\ params = [ticker |-> "^SPX", wait |-> 1]
    /\ tables = EmptyDict
    /\ events = <<>>
    /\ data_dict = EmptyDict
    /\ env = EmptyDict
    /\ first = EmptyDict

\* get_option_data without lines 186-188: what the context already holds of
\* option_dict, opt_except_list and full_data is kept
BeginWithoutReset(q, n) ==
    /\ pc = "idle"
    /\ info' = q
    /\ chains' = EmptyDict
    /\ tables' = IF Has(tables, "full_data") THEN tables
                  ELSE Put(tables, "full_data", EmptyFrame)
    /\ LET kept == IF Has(params, "option_dict") THEN params
                   ELSE Put(Put(params, "option_dict", EmptyDict), "opt_except_list", <<>>)
           spot == spot_fallback(q)
       IN  IF spot.ok
           THEN /\ params' = Put(Put(kept, "extracted_spot", spot.value),
                                 "date_list", [k \in 1..n |-> k])
                /\ pc' = "loop"
                /\ error' = "none"
           ELSE /\ params' = kept
                /\ pc' = "raised"
                /\ error' = spot.exc
    /\ UNCHANGED <<events, data_dict, env, first>>

\* the resets, the spot price and the expiry list
Begin(q, n) ==
    /\ pc = "idle"
    /\ info' = q
    /\ chains' = EmptyDict
    /\ tables' = Put(tables, "full_data", EmptyFrame)
    /\ LET reset == Put(Put(params, "option_dict", EmptyDict), "opt_except_list", <<>>)
           spot == spot_fallback(q)
       IN  IF spot.ok
           THEN /\ params' = Put(Put(reset, "extracted_spot", spot.value),
                                 "date_list", [k \in 1..n |-> k])
                /\ pc' = "loop"
                /\ error' = "none"
           ELSE /\ params' = reset
                /\ pc' = "raised"
                /\ error' = spot.exc
    /\ UNCHANGED <<events, data_dict, env, first>>

\* one turn of the loop, on the next expiry of the list
NextExpiry == params["date_list"][Cardinality(Processed) + 1]

RowsOf(chain) == Len(chain.calls.rows) + Len(chain.puts.rows)

ProcessExpiry(chain) ==
    /\ pc = "loop"
    /\ Cardinality(Processed) < Len(params["date_list"])
    /\ RowsOf(chain) <= MaxRows - RowsReturned(Processed)
    /\ chains' = Put(chains, NextExpiry, chain)
    /\ IF chain.raised
       THEN /\ params' = [params EXCEPT !["option_dict"] = Put(@, NextExpiry, <<>>)]
            /\ pc' = "raised"
            /\ error' = "ProviderError"
            /\ UNCHANGED tables
       ELSE LET out == expiry_body(tables["full_data"], NextExpiry, chain)
            IN  /\ params' = [params EXCEPT
                        !["option_dict"] = Put(@, NextExpiry, out.frames),
                        !["opt_except_list"] =
                            IF out.failed THEN Append(@, NextExpiry) ELSE @]
                /\ tables' = [tables EXCEPT !["full_data"] = out.full_data]
                /\ UNCHANGED <<pc, error>>
    /\ UNCHANGED <<info, events, data_dict, env, first>>

\* after the loop: the rename, and the return
Finish ==
    /\ pc = "loop"
    /\ Cardinality(Processed) = Len(params["date_list"])
    /\ tables' = [tables EXCEPT !["full_data"] = RenameColumns(@)]
    /\ events' = Append(events, Event("rename", <<>>, 0))
    /\ pc' = "returned"
    /\ UNCHANGED <<error, info, chains, params, data_dict, env, first>>

\* the quote snapshots the runs over whole chains start from
LoopQuotes ==
    { q \in Quotes : DOMAIN q \in {{}, {"currentPrice"}} }

Next ==
    \/ \E q \in LoopQuotes, n \in 0..MaxExpiries : Begin(q, n)
    \/ \E chain \in Chains(MaxRows) : ProcessExpiry(chain)
    \/ Finish

Spec == Init /\ [][Next]_vars

(***************************************************************************)
(* The same program over every quote snapshot, the provider answering each *)
(* expiry with one of a few chains.                                        *)
(***************************************************************************)
ChainSamples ==
    { ChainRaises,
      [raised |-> FALSE, calls |-> StrikeFrame("C", <<>>), puts |-> StrikeFrame("P", <<>>)],
      [raised |-> FALSE,
       calls |-> StrikeFrame("C", <<[type |-> "float", text |-> "100.5"]>>),
       puts |-> StrikeFrame("P", <<[type |-> "float", text |-> "100.5"]>>)] }

SpotNext ==
    \/ \E q \in Quotes, n \in 0..MaxExpiries : Begin(q, n)
    \/ \E chain \in ChainSamples : ProcessExpiry(chain)
    \/ Finish

SpotSpec == Init /\ [][SpotNext]_vars

(***************************************************************************)
(* The legacy fetcher, Data.extractoptions: the expiries and their page    *)
(* tokens are read off the date picker of the root page, every page is     *)
(* requested, its tables are parsed and accumulated.  An expiry key n      *)
(* stands for the text "2025-01-n".                                        *)
(***************************************************************************)
\* An insertion-ordered dict (url_dict): a sequence of items, distinct keys.
Item(k, v) == [key |-> k, value |-> v]

Keys(od) == [i \in 1..Len(od) |-> od[i].key]

\* od[k] = v: an existing key keeps its place and takes the new value
OrderedPut(od, k, v) ==
    IF \E i \in 1..Len(od) : od[i].key = k
    THEN [i \in 1..Len(od) |-> IF od[i].key = k THEN Item(k, v) ELSE od[i]]
    ELSE Append(od, Item(k, v))

\* the text of a date-picker entry, as dateutil reads it
DateText(k) == [month |-> "January", day |-> k, year |-> 2025]

NoDateText == [month |-> "", day |-> 0, year |-> 0]

\* the data-value of a date-picker entry: what it stands for, len() of it
\* and whether it is all digits
PageToken(k) == [value |-> k, len |-> 10, isdigit |-> TRUE]

ShortToken == [value |-> 0, len |-> 9, isdigit |-> TRUE]

NonNumericToken == [value |-> 0, len |-> 10, isdigit |-> FALSE]

Entry(date, token) == [date |-> date, token |-> token]

\* parser.parse(option_date).date()
parse(t) ==
    IF t.month = "January" /\ t.day \in 1..31
    THEN Value([year |-> t.year, month |-> 1, day |-> t.day])
    ELSE Raise("ValueError")

\* date_obj.strftime('%Y-%m-%d')
strftime(d) == d.day

\* the dates that parse, in the order of the entries
RECURSIVE str_dates(_)
str_dates(es) ==
    IF es = <<>> THEN <<>>
    ELSE LET d == parse(Head(es).date)
         IN  (IF d.ok THEN <<strftime(d.value)>> ELSE <<>>) \o str_dates(Tail(es))

\* the tokens of 10 digits, in the order of the entries
option_pages(es) ==
    SelectSeq([i \in 1..Len(es) |-> es[i].token],
              LAMBDA num : num.len = 10 /\ num.isdigit)

\* dict(zip(ks, vs)) over the first n pairs
RECURSIVE DictOfZip(_, _, _)
DictOfZip(ks, vs, n) ==
    IF n = 0 THEN <<>>
    ELSE OrderedPut(DictOfZip(ks, vs, n - 1), ks[n], vs[n])

Min(a, b) == IF a <= b THEN a ELSE b

optodict(es) ==
    DictOfZip(str_dates(es), option_pages(es),
              Min(Len(str_dates(es)), Len(option_pages(es))))

RootUrl(ticker) == <<"https://finance.yahoo.com/quote/", ticker, "/options?p=", ticker>>

PageUrl(ticker, page) ==
    <<"https://finance.yahoo.com/quote/", ticker, "/options?date=", page.value>>

url_dict(ticker, es) ==
    [i \in 1..Len(optodict(es)) |->
        Item(optodict(es)[i].key, PageUrl(ticker, optodict(es)[i].value))]

\* _extracturls: the root page is requested and its date picker read
ExtractUrls(raises, es) ==
    /\ pc = "idle"
    /\ events' = Append(events, Event("get", RootUrl(params["ticker"]), 0))
    /\ IF raises
       THEN /\ pc' = "raised"
            /\ error' = "TransportError"
            /\ UNCHANGED params
       ELSE /\ params' = Put(Put(params, "html_doc", es),
                             "url_dict", url_dict(params["ticker"], es))
            /\ pc' = "fetch"
            /\ error' = "none"
    /\ chains' = EmptyDict
    /\ UNCHANGED <<info, tables, data_dict, env, first>>

\* a table of a page with a Strike column, one row per cell
HtmlTable(side, cells) ==
    [columns |-> {"Contract Name", "Strike"},
     rows |-> [i \in 1..Len(cells) |->
                 [c \in {"Contract Name", "Strike"} |->
                     IF c = "Strike" THEN cells[i]
                     ELSE <<side, i>>]]]

\* a table of a page without a Strike column
HtmlTableNoStrike(side, k) ==
    [columns |-> {"Contract Name"},
     rows |-> [i \in 1..k |->
                 [c \in {"Contract Name"} |-> <<side, i>>]]]

HtmlCells ==
    { [type |-> "int", text |-> "100"],
      [type |-> "float", text |-> "100.5"],
      [type |-> "str", text |-> "-"] }

HtmlTables(side) ==
    {HtmlTable(side, <<>>), HtmlTableNoStrike(side, 1)}
        \cup {HtmlTable(side, <<c>>) : c \in HtmlCells}

\* the pages: no table, one table, two tables
Pages ==
    {<<>>} \cup {<<c>> : c \in HtmlTables("C")}
           \cup {<<c, p>> : c \in HtmlTables("C"), p \in HtmlTables("P")}

\* What a page request gives: the page, or a fault, raised by
\* urlopener.open(url) or by the read of weburl.text.
Answer(fault, page) == [fault |-> fault, page |-> page]

Answers ==
    {Answer("open", <<>>), Answer("text", <<>>)}
        \cup {Answer("none", p) : p \in Pages}

RECURSIVE PageRows(_)
PageRows(page) ==
    IF page = <<>> THEN 0 ELSE Len(Head(page).rows) + PageRows(Tail(page))

RECURSIVE RowsFetched(_)
RowsFetched(ds) ==
    IF ds = {} THEN 0
    ELSE LET d == CHOOSE x \in ds : TRUE
         IN  PageRows(chains[d].page) + RowsFetched(ds \ {d})

\* _extract_web_data, one turn of its loop: the next page of url_dict
FetchPage(answer) ==
    /\ pc = "fetch"
    /\ Cardinality(DOMAIN chains) < Len(params["url_dict"])
    /\ PageRows(answer.page) <= MaxRows - RowsFetched(DOMAIN chains)
    /\ LET item == params["url_dict"][Cardinality(DOMAIN chains) + 1]
       IN  /\ chains' = Put(chains, item.key, answer)
           /\ IF answer.fault = "open"
              THEN /\ events' = Append(events, Event("get", item.value, 0))
                   /\ pc' = "raised"
                   /\ error' = "TransportError"
              ELSE /\ events' = events \o
                        << Event("get", item.value, 0),
                           Event("sleep", <<>>,
                                 IF answer.fault = "text" THEN 5 ELSE params["wait"]) >>
                   /\ UNCHANGED <<pc, error>>
    /\ UNCHANGED <<info, params, tables, data_dict, env, first>>

\* the raw_web_data dict the loop of _extract_web_data has filled
raw_web_data ==
    [d \in {x \in DOMAIN chains : chains[x].fault = "none"} |-> chains[d].page]

\* pd.read_html(StringIO(text)): the tables of the page, ValueError for none
read_html(page) == IF Len(page) = 0 THEN Raise("ValueError") ELSE Value(page)

\* the loop of _read_web_data over the items of url_dict
RECURSIVE read_web_data(_, _, _)
read_web_data(items, raw, acc) ==
    IF items = <<>> THEN acc
    ELSE IF ~Has(raw, Head(items).key)
    THEN [acc EXCEPT !.exc = "KeyError"]
    ELSE IF read_html(raw[Head(items).key]).ok
    THEN read_web_data(Tail(items), raw,
            [acc EXCEPT !.option_dict =
                Put(@, Head(items).key, read_html(raw[Head(items).key]).value)])
    ELSE read_web_data(Tail(items), raw,
            [acc EXCEPT !.url_except_dict = Put(@, Head(items).key, Head(items).value)])

\* _extract_web_data returns and _read_web_data runs
ReadWebData ==
    /\ pc = "fetch"
    /\ Cardinality(DOMAIN chains) = Len(params["url_dict"])
    /\ LET out == read_web_data(params["url_dict"], raw_web_data,
                      [option_dict |-> EmptyDict, url_except_dict |-> EmptyDict,
                       exc |-> "none"])
       IN  /\ params' = Put(Put(Put(params, "raw_web_data", raw_web_data),
                                "option_dict", out.option_dict),
                            "url_except_dict", out.url_except_dict)
           /\ pc' = IF out.exc = "none" THEN "process" ELSE "raised"
           /\ error' = out.exc
    /\ UNCHANGED <<info, chains, tables, events, data_dict, env, first>>

\* str(x)
str(x) == x.text

\* str.isdigit(): every character a digit, and at least one
isdigit(s) ==
    CASE s = "100" -> TRUE
      [] s = "100.5" -> FALSE
      [] s = "-" -> FALSE
      [] s = "nan" -> FALSE
      [] OTHER -> FALSE

\* The reads of one side of params['option_dict'][input_date]: "IndexError"
\* when the list has no such table, "KeyError" when the table has no Strike
\* column, "ok" or "skip" as str(df['Strike'][0]).isdigit() is true or false.
\* On a table without rows df['Strike'][0] raises what empty names: KeyError
\* on a RangeIndex, IndexError on an index read by position.
html_side(frames, i, empty) ==
    IF i > Len(frames) THEN "IndexError"
    ELSE IF "Strike" \notin frames[i].columns THEN "KeyError"
    ELSE IF Len(frames[i].rows) = 0 THEN empty
    ELSE IF isdigit(str(frames[i].rows[1]["Strike"])) THEN "ok"
    ELSE "skip"

LegacyOutcome(fd, frames, failed, exc) ==
    [full_data |-> fd, frames |-> frames, failed |-> failed, exc |-> exc]

\* df['Option Type'] = type on the i-th table, when the list has one
Tag(frames, i, type) ==
    IF i <= Len(frames)
    THEN [frames EXCEPT ![i] = SetColumn(@, "Option Type", type)]
    ELSE frames

SetExpiry(frames, i, d) == [frames EXCEPT ![i] = SetColumn(@, "Expiry", to_date(d))]

\* calls kept: the inner try on the puts
html_calls_then_puts(fd, d, frames, empty) ==
    CASE html_side(frames, 2, empty) = "ok" ->
            LegacyOutcome(
                Concat(fd, SetColumn(Concat(frames[1], Tag(frames, 2, "put")[2]),
                                     "Expiry", to_date(d))),
                Tag(frames, 2, "put"), FALSE, "none")
      [] html_side(frames, 2, empty) = "skip" ->
            LegacyOutcome(fd, Tag(frames, 2, "put"), FALSE, "none")
      [] html_side(frames, 2, empty) = "IndexError" ->
            LegacyOutcome(Concat(fd, SetColumn(frames[1], "Expiry", to_date(d))),
                          SetExpiry(Tag(frames, 2, "put"), 1, d), FALSE, "none")
      [] OTHER -> LegacyOutcome(fd, Tag(frames, 2, "put"), FALSE, "KeyError")

\* the handler of the outer try: the puts alone
html_puts_only(fd, d, frames, empty) ==
    CASE html_side(frames, 2, empty) = "ok" ->
            LegacyOutcome(
                Concat(fd, SetColumn(Tag(frames, 2, "put")[2], "Expiry", to_date(d))),
                SetExpiry(Tag(frames, 2, "put"), 2, d), FALSE, "none")
      [] html_side(frames, 2, empty) = "skip" ->
            LegacyOutcome(fd, Tag(frames, 2, "put"), FALSE, "none")
      [] html_side(frames, 2, empty) = "IndexError" ->
            LegacyOutcome(fd, Tag(frames, 2, "put"), TRUE, "none")
      [] OTHER -> LegacyOutcome(fd, Tag(frames, 2, "put"), FALSE, "KeyError")

\* the body of the loop of _process_options, for one date
process_date(fd, d, frames, empty) ==
    CASE html_side(frames, 1, empty) = "ok" ->
            html_calls_then_puts(fd, d, Tag(frames, 1, "call"), empty)
      [] html_side(frames, 1, empty) = "skip" ->
            LegacyOutcome(fd, Tag(frames, 1, "call"), FALSE, "none")
      [] html_side(frames, 1, empty) = "IndexError" ->
            html_puts_only(fd, d, Tag(frames, 1, "call"), empty)
      [] OTHER -> LegacyOutcome(fd, Tag(frames, 1, "call"), FALSE, "KeyError")

\* the loop of _process_options, left by the first exception it does not
\* handle
RECURSIVE process_options(_, _, _)
process_options(dates, empty, acc) ==
    IF dates = <<>> THEN acc
    ELSE LET out == process_date(acc.full_data, Head(dates),
                                 acc.option_dict[Head(dates)], empty)
             after == [full_data |-> out.full_data,
                       option_dict |-> Put(acc.option_dict, Head(dates), out.frames),
                       opt_except_list |->
                           IF out.failed THEN Append(acc.opt_except_list, Head(dates))
                           ELSE acc.opt_except_list,
                       exc |-> out.exc]
         IN  IF out.exc = "none" THEN process_options(Tail(dates), empty, after)
             ELSE after

\* list(params['option_dict'].keys()): the keys in insertion order
date_list ==
    SelectSeq(Keys(params["url_dict"]), LAMBDA k : Has(params["option_dict"], k))

\* the rest of extractoptions: the empty table, the date list and
\* _process_options
ProcessOptions(empty) ==
    /\ pc = "process"
    /\ LET out == process_options(date_list, empty,
                      [full_data |-> EmptyFrame,
                       option_dict |-> params["option_dict"],
                       opt_except_list |-> <<>>, exc |-> "none"])
       IN  /\ params' = Put(Put(Put(params, "date_list", date_list),
                                "opt_except_list", out.opt_except_list),
                            "option_dict", out.option_dict)
           /\ tables' = Put(tables, "full_data", out.full_data)
           /\ pc' = IF out.exc = "none" THEN "returned" ELSE "raised"
           /\ error' = out.exc
    /\ UNCHANGED <<info, chains, events, data_dict, env, first>>

\* date pickers whose entries all parse and all carry a page token
PickerSamples == { [k \in 1..n |-> Entry(DateText(k), PageToken(k))] : n \in 0..MaxExpiries }

EmptyLookups == {"IndexError", "KeyError"}

\* either fetcher, the legacy one over every answer to a page request
LegacyNext ==
    \/ \E q \in LoopQuotes, n \in 0..MaxExpiries : Begin(q, n)
    \/ \E chain \in ChainSamples : ProcessExpiry(chain)
    \/ Finish
    \/ \E raises \in BOOLEAN, es \in PickerSamples : ExtractUrls(raises, es)
    \/ \E answer \in Answers : FetchPage(answer)
    \/ ReadWebData
    \/ \E empty \in EmptyLookups : ProcessOptions(empty)

LegacySpec == Init /\ [][LegacyNext]_vars

\* the date pickers of at most n entries
Pickers(n) ==
    UNION { [1..k -> { Entry(d, t) :
                         d \in {DateText(i) : i \in 1..n} \cup {NoDateText},
                         t \in {PageToken(i) : i \in 1..n}
                                 \cup {ShortToken, NonNumericToken} }] :
            k \in 0..n }

\* the legacy fetcher over every date picker, each page without a table
UrlNext ==
    \/ \E raises \in BOOLEAN, es \in Pickers(MaxExpiries) : ExtractUrls(raises, es)
    \/ FetchPage(Answer("none", <<>>))
    \/ ReadWebData
    \/ \E empty \in EmptyLookups : ProcessOptions(empty)

UrlSpec == Init /\ [][UrlNext]_vars

(***************************************************************************)
(* The constructor of Volatility: the trading calendar, then the           *)
(* precomputed table when one is supplied, the fetch otherwise.            *)
(***************************************************************************)
\* A calendar date: a year and a day of the year, every year of 365 days.
Ordinal(d) == d.year * 365 + d.doy

\* timedelta(days=2500)
HorizonDays == 2500

\* USFederalHolidayCalendar.rules as pandas lists them, without the
\* Juneteenth rule and with it
FederalRulesBefore ==
    << "New Year's Day", "Birthday of Martin Luther King, Jr.",
       "Washington's Birthday", "Memorial Day", "Independence Day",
       "Labor Day", "Columbus Day", "Veterans Day", "Thanksgiving Day",
       "Christmas Day" >>

FederalRulesSince ==
    << "New Year's Day", "Birthday of Martin Luther King, Jr.",
       "Washington's Birthday", "Memorial Day",
       "Juneteenth National Independence Day", "Independence Day",
       "Labor Day", "Columbus Day", "Veterans Day", "Thanksgiving Day",
       "Christmas Day" >>

FederalRuleLists == {FederalRulesBefore, FederalRulesSince}

\* the day of the year a rule yields, the same every year
DayOfYear(rule) ==
    CASE rule = "New Year's Day" -> 1
      [] rule = "Birthday of Martin Luther King, Jr." -> 20
      [] rule = "Washington's Birthday" -> 50
      [] rule = "Good Friday" -> 100
      [] rule = "Memorial Day" -> 148
      [] rule = "Juneteenth National Independence Day" -> 170
      [] rule = "Independence Day" -> 185
      [] rule = "Labor Day" -> 247
      [] rule = "Columbus Day" -> 285
      [] rule = "Veterans Day" -> 315
      [] rule = "Thanksgiving Day" -> 330
      [] rule = "Christmas Day" -> 359

\* CustomTradingCalendar.rules: the rules at every index but 6 and 7,
\* counted from 0
CustomRules(rules) ==
    {rules[i] : i \in {j \in 1..Len(rules) : j - 1 # 6 /\ j - 1 # 7}}

\* HolidayCalendarFactory: the rules of the two calendars merged
TradingRules(rules) == CustomRules(rules) \cup {"Good Friday"}

\* tcal.holidays(start=start, end=end)
holidays(ruleset, start, end) ==
    { d \in { [year |-> y, doy |-> DayOfYear(r)] :
                r \in ruleset, y \in (start \div 365)..(end \div 365) } :
        Ordinal(d) >= start /\ Ordinal(d) <= end }

trading_calendar(rules, today) ==
    holidays(TradingRules(rules), Ordinal(today), Ordinal(today) + HorizonDays)

Todays == { [year |-> 2025, doy |-> 1], [year |-> 2026, doy |-> 309] }

\* the columns process_df_option_data keeps
ProjectedColumns ==
    { "Contract Symbol", "Last Price", "Bid", "Ask", "Last Trade Date",
      "Expiry", "Strike", "Option Type", "Open Interest", "Volume",
      "Implied Volatility", "Discount Rate" }

\* the columns of a supplied table
SuppliedColumns ==
    (ProjectedColumns \ {"Discount Rate"})
        \cup {"Spot Price", "Smooth Discount Rate", "Direct Discount Rate"}

\* the two calibrated rates of a row, never equal
RatePairs == { [smooth |-> 1, direct |-> 2], [smooth |-> 2, direct |-> 1] }

SuppliedRow(i, rates) ==
    [c \in SuppliedColumns |->
        CASE c = "Contract Symbol" -> <<"X", i>>
          [] c = "Spot Price" -> 100
          [] c = "Smooth Discount Rate" -> rates.smooth
          [] c = "Direct Discount Rate" -> rates.direct
          [] OTHER -> NaN]

\* the supplied tables of at most n rows
PrecomputedTables(n) ==
    UNION { { [columns |-> SuppliedColumns,
               rows |-> [i \in 1..k |-> SuppliedRow(i, rs[i])]] :
                rs \in [1..k -> RatePairs] } :
            k \in 0..n }

DiscountTypes == {"smooth", "direct", "flat"}

\* the column the flag selects, the calibrated columns exchanged
discount_column_exchanged(flag) ==
    IF flag = "smooth" THEN "Direct Discount Rate" ELSE "Smooth Discount Rate"

\* the column the flag selects
discount_column(flag) ==
    IF flag = "smooth" THEN "Smooth Discount Rate" ELSE "Direct Discount Rate"

\* df[to] = df[from]
CopyColumn(df, to, from) ==
    [columns |-> df.columns \cup {to},
     rows |-> [i \in 1..Len(df.rows) |->
                 [c \in df.columns \cup {to} |->
                     IF c = to THEN df.rows[i][from] ELSE df.rows[i][c]]]]

\* df[[cols]]
Project(df, cols) ==
    [columns |-> cols,
     rows |-> [i \in 1..Len(df.rows) |-> [c \in cols |-> df.rows[i][c]]]]

\* a Volatility object about to be constructed
New ==
    /\ pc = "new"
    /\ error = "none"
    /\ info = EmptyDict
    /\ chains = EmptyDict
    /\ params = [ticker |-> "^SPX", wait |-> 1]
    /\ tables = EmptyDict
    /\ events = <<>>
    /\ data_dict = EmptyDict
    /\ env = EmptyDict
    /\ first = EmptyDict

\* __init__ up to the hand-over to DataPrep.transform (a supplied table) or
\* to the call of get_option_data (none); df['Spot Price'].iloc[0] raises
\* IndexError on a table without rows
Construct(today, rules, flag, supplied, df) ==
    /\ pc = "new"
    /\ env' = [today |-> today, federal_rules |-> rules]
    /\ LET inputs == Put(params, "discount_type", flag)
           dated == Put(inputs, "trade_holidays", trading_calendar(rules, today))
           rated == CopyColumn(df, "Discount Rate", discount_column(flag))
       IN  IF ~supplied
           THEN /\ params' = dated
                /\ pc' = "idle"
                /\ UNCHANGED <<error, tables>>
           ELSE IF Len(rated.rows) = 0
           THEN /\ params' = Put(dated, "precomputed_data", rated)
                /\ pc' = "raised"
                /\ error' = "IndexError"
                /\ UNCHANGED tables
           ELSE /\ params' = Put(Put(dated, "precomputed_data", rated),
                                 "extracted_spot", Number(rated.rows[1]["Spot Price"]))
                /\ tables' = Put(tables, "full_data", Project(rated, ProjectedColumns))
                /\ pc' = "transform"
                /\ UNCHANGED error
    /\ UNCHANGED <<info, chains, events, data_dict, first>>

VolNext ==
    \/ \E today \in Todays, rules \in FederalRuleLists, flag \in DiscountTypes :
            Construct(today, rules, flag, FALSE, EmptyFrame)
    \/ \E today \in Todays, rules \in FederalRuleLists, flag \in DiscountTypes,
          df \in PrecomputedTables(MaxRows) :
            Construct(today, rules, flag, TRUE, df)
    \/ \E q \in LoopQuotes, n \in 0..MaxExpiries : Begin(q, n)
    \/ \E chain \in ChainSamples : ProcessExpiry(chain)
    \/ Finish

VolSpec == New /\ [][VolNext]_vars

(***************************************************************************)
(* Volatility.visualize.                                                   *)
(***************************************************************************)
GraphTypes == {"line", "scatter", "surface", "bar"}

SurfaceTypes ==
    { "trisurf", "mesh", "spline", "svi", "interactive_mesh",
      "interactive_spline", "interactive_svi", "wireframe" }

\* the keyword arguments of a call: graphtype and surfacetype, each given
\* or left out
Kwargs ==
    { kw \in UNION { [ks -> GraphTypes \cup SurfaceTypes] :
                       ks \in SUBSET {"graphtype", "surfacetype"} } :
        /\ Has(kw, "graphtype") => kw["graphtype"] \in GraphTypes
        /\ Has(kw, "surfacetype") => kw["surfacetype"] \in SurfaceTypes }

\* self.params[key] = value for every keyword argument
Update(d, kw) ==
    [k \in (DOMAIN d) \cup (DOMAIN kw) |-> IF Has(kw, k) THEN kw[k] ELSE d[k]]

\* what one branch of the if chain does: the method it runs ("print" for
\* the message, "none" for nothing at all) and the data_dict key it assigns
Branch(method, key) == [method |-> method, key |-> key]

\* The if chain of visualize.  The elifs on surfacetype from 'mesh' on are
\* indented as branches of the chain on graphtype.
dispatch(graphtype, surfacetype) ==
    IF graphtype = "line" THEN Branch("line_graph", "line_data_dict")
    ELSE IF graphtype = "scatter" THEN Branch("scatter_3d", "scatter_data_dict")
    ELSE IF graphtype = "surface"
    THEN IF surfacetype = "trisurf"
         THEN Branch("surface_3d", "trisurf_data_dict")
         ELSE Branch("none", "none")
    ELSE IF surfacetype = "mesh" THEN Branch("surface_3d", "mesh_data_dict")
    ELSE IF surfacetype = "spline" THEN Branch("surface_3d", "spline_data_dict")
    ELSE IF surfacetype = "svi" THEN Branch("surface_3d", "svi_data_dict")
    ELSE IF surfacetype = "interactive_mesh"
    THEN Branch("surface_3d", "int_mesh_data_dict")
    ELSE IF surfacetype = "interactive_spline"
    THEN Branch("surface_3d", "int_spline_data_dict")
    ELSE IF surfacetype = "interactive_svi"
    THEN Branch("surface_3d", "int_svi_data_dict")
    ELSE Branch("print", "none")

\* a constructed object: data_dict empty, graphtype and surfacetype at the
\* defaults
Constructed ==
    /\ pc = "ready"
    /\ error = "none"
    /\ info = EmptyDict
    /\ chains = EmptyDict
    /\ params = [ticker |-> "^SPX", wait |-> 1,
                 graphtype |-> "line", surfacetype |-> "mesh"]
    /\ tables = EmptyDict
    /\ events = <<>>
    /\ data_dict = EmptyDict
    /\ env = EmptyDict
    /\ first = EmptyDict

\* one call of visualize; events holds what this call did
Visualize(kw) ==
    /\ pc \in {"ready", "visualized"}
    /\ params' = Update(params, kw)
    /\ LET branch == dispatch(Update(params, kw)["graphtype"],
                              Update(params, kw)["surfacetype"])
       IN  /\ events' = IF branch.method = "none" THEN <<>>
                        ELSE <<Event(branch.method, <<>>, 0)>>
           /\ data_dict' = IF branch.key = "none" THEN data_dict
                           ELSE Put(data_dict, branch.key, branch.method)
    /\ pc' = "visualized"
    /\ UNCHANGED <<error, info, chains, tables, env, first>>

VisNext == \E kw \in Kwargs : Visualize(kw)

VisSpec == Constructed /\ [][VisNext]_vars

(***************************************************************************)
(* Claims about the spot price.                                            *)
(***************************************************************************)
Started == pc # "idle"

\* the fallback order as documented: currentPrice, else the mid of bid and
\* ask unless it is more than 20% away from previousClose, else navPrice,
\* else previousClose
DocumentedSpot(q) ==
    IF Has(q, "currentPrice") THEN Number(q["currentPrice"])
    ELSE IF Has(q, "bid") /\ Has(q, "ask")
    THEN IF Has(q, "previousClose")
            /\ q["previousClose"] > 0
            /\ 5 * Abs(q["bid"] + q["ask"] - 2 * q["previousClose"]) > 2 * q["previousClose"]
         THEN Number(q["previousClose"])
         ELSE Halve(q["bid"] + q["ask"])
    ELSE IF Has(q, "navPrice") THEN Number(q["navPrice"])
    ELSE IF Has(q, "previousClose") THEN Number(q["previousClose"])
    ELSE Number(-1)

\* C1: the spot price stored in params['extracted_spot'] is the one the
\* documented four-step fallback gives for the quote snapshot.
C1_SpotFollowsDocumentedFallback ==
    Has(params, "extracted_spot") => params["extracted_spot"] = DocumentedSpot(info)

\* C2: whenever previousClose is present in the snapshot, whatever its value,
\* the spot resolution stores a spot price and raises nothing.
C2_NoFailureWithPreviousClose ==
    (Started /\ Has(info, "previousClose")) =>
        /\ Has(params, "extracted_spot")
        /\ error \notin {"KeyError", "ZeroDivisionError"}

\* all four fallbacks exhausted
Exhausted(q) ==
    /\ ~Has(q, "currentPrice")
    /\ ~Has(q, "navPrice")
    /\ ~Has(q, "previousClose")
    /\ ~(Has(q, "bid") /\ Has(q, "ask"))

\* C3 as stated: with the four fallbacks exhausted the failure is surfaced, no
\* option chain is requested and the tables mapping gets no 'full_data' entry.
C3_NoFullDataEntryOnFatalSpot ==
    (Started /\ Exhausted(info)) =>
        /\ pc = "raised"
        /\ error = "KeyError"
        /\ chains = EmptyDict
        /\ ~Has(tables, "full_data")

\* C3 as amended: with the four fallbacks exhausted the failure is surfaced as
\* a KeyError, neither the expiry list nor any option chain is requested, no
\* spot price is stored, and tables['full_data'] is the empty table the reset
\* at the start of the run wrote: it holds no row.
C3_FatalSpotLeavesEmptyTable ==
    (Started /\ Exhausted(info)) =>
        /\ pc = "raised"
        /\ error = "KeyError"
        /\ chains = EmptyDict
        /\ ~Has(params, "date_list")
        /\ ~Has(params, "extracted_spot")
        /\ Has(tables, "full_data")
        /\ tables["full_data"] = EmptyFrame

C3_Witness ==
    /\ pc = "raised"
    /\ error = "KeyError"
    /\ Exhausted(info)
    /\ Has(info, "bid")

\* C15: each fallback step is attempted only when the fields of the step
\* before it are absent: with currentPrice absent and bid and ask both
\* present the stored spot is the mid or previousClose, never navPrice.
C15_NavOnlyWithoutBidAsk ==
    (/\ Has(params, "extracted_spot")
     /\ ~Has(info, "currentPrice")
     /\ Has(info, "bid")
     /\ Has(info, "ask")) =>
        \/ params["extracted_spot"] = Halve(info["bid"] + info["ask"])
        \/ /\ Has(info, "previousClose")
           /\ params["extracted_spot"] = Number(info["previousClose"])

(***************************************************************************)
(* Claims about the loop over the expiries.                                *)
(***************************************************************************)
\* the column holding the strike: renamed once get_option_data has returned
StrikeColumn == IF pc = "returned" THEN "Strike" ELSE "strike"

Numeric(cell) == cell.type # "str"

\* a side as the claims classify it: valid when it has rows, a strike field
\* and a numeric strike in its first row
ValidSide(df) ==
    /\ Len(df.rows) > 0
    /\ "strike" \in df.columns
    /\ Numeric(df.rows[1]["strike"])

Answered(e) == e \in Processed /\ ~chains[e].raised

\* the rows of tables['full_data'] stamped with the date of expiry e, in order
RowsFor(e) ==
    LET stamped(r) == Has(r, "Expiry") /\ r["Expiry"] = to_date(e)
    IN  SelectSeq(tables["full_data"].rows, stamped)

\* row r of the table is row i of the provider's frame df, tagged with type t
IsRowOf(r, df, i, t) ==
    /\ r["contractSymbol"] = df.rows[i]["contractSymbol"]
    /\ r[StrikeColumn] = df.rows[i]["strike"]
    /\ r["Option Type"] = t

Recorded(e) == Len(SelectSeq(params["opt_except_list"], LAMBDA x : x = e))

\* C4: an expiry with valid calls and valid puts adds exactly the call rows,
\* typed 'call', then the put rows, typed 'put', all stamped with its date, and
\* is not recorded in opt_except_list.
C4_BothSidesAppended ==
    \A e \in Processed :
        (Answered(e) /\ ValidSide(chains[e].calls) /\ ValidSide(chains[e].puts)) =>
            LET calls == chains[e].calls
                puts == chains[e].puts
                rows == RowsFor(e)
            IN  /\ Len(rows) = Len(calls.rows) + Len(puts.rows)
                /\ \A i \in 1..Len(calls.rows) : IsRowOf(rows[i], calls, i, "call")
                /\ \A i \in 1..Len(puts.rows) :
                        IsRowOf(rows[Len(calls.rows) + i], puts, i, "put")
                /\ Recorded(e) = 0

C4_Witness ==
    /\ pc = "returned"
    /\ \E e \in Processed :
        /\ Answered(e)
        /\ ValidSide(chains[e].calls)
        /\ ValidSide(chains[e].puts)
        /\ Len(RowsFor(e)) = 2

\* C5: an expiry with valid calls whose puts fail (no strike field, no rows,
\* or a non-numeric first strike) adds exactly its call rows, stamped with its
\* date, and is not recorded in opt_except_list.
C5_CallsOnlyWhenPutsFail ==
    \A e \in Processed :
        (Answered(e) /\ ValidSide(chains[e].calls) /\ ~ValidSide(chains[e].puts)) =>
            LET calls == chains[e].calls
                rows == RowsFor(e)
            IN  /\ Len(rows) = Len(calls.rows)
                /\ \A i \in 1..Len(calls.rows) : IsRowOf(rows[i], calls, i, "call")
                /\ Recorded(e) = 0

\* C6: an expiry whose calls fail and whose puts are valid adds exactly its
\* put rows, typed 'put' and stamped with its date, and is not recorded in
\* opt_except_list.
C6_PutsOnlyWhenCallsFail ==
    \A e \in Processed :
        (Answered(e) /\ ~ValidSide(chains[e].calls) /\ ValidSide(chains[e].puts)) =>
            LET puts == chains[e].puts
                rows == RowsFor(e)
            IN  /\ Len(rows) = Len(puts.rows)
                /\ \A i \in 1..Len(puts.rows) : IsRowOf(rows[i], puts, i, "put")
                /\ Recorded(e) = 0

\* C7: an expiry on which both sides fail, in whatever way, is recorded exactly
\* once in opt_except_list and adds no row.
C7_BothFailRecordedOnce ==
    \A e \in Processed :
        (Answered(e) /\ ~ValidSide(chains[e].calls) /\ ~ValidSide(chains[e].puts)) =>
            /\ Recorded(e) = 1
            /\ Len(RowsFor(e)) = 0

\* C8: when the provider raises on the chain of an expiry, the expiry is
\* recorded in opt_except_list with no row, and the run goes on: nothing
\* leaves get_option_data.
C8_ProviderFaultIsolated ==
    \A e \in Processed :
        chains[e].raised =>
            /\ Recorded(e) = 1
            /\ Len(RowsFor(e)) = 0
            /\ pc # "raised"

\* C9: once get_option_data has returned, every expiry of the provider's list
\* has a row in tables['full_data'] or is recorded in opt_except_list.
C9_NothingLostSilently ==
    pc = "returned" =>
        \A k \in 1..Len(params["date_list"]) :
            LET e == params["date_list"][k]
            IN  Len(RowsFor(e)) > 0 \/ Recorded(e) > 0

\* C10: every row of tables['full_data'] has a numeric strike.
C10_EveryStrikeNumeric ==
    Has(tables, "full_data") =>
        \A i \in 1..Len(tables["full_data"].rows) :
            Numeric(tables["full_data"].rows[i][StrikeColumn])

(***************************************************************************)
(* Claims about the legacy fetcher.                                        *)
(***************************************************************************)
\* a run of extractoptions that got past the root page
Legacy == Has(params, "url_dict")

\* the expiries whose page request met a fault
Faulted == IF Legacy THEN {d \in DOMAIN chains : chains[d].fault # "none"} ELSE {}

\* the run left by an exception before _process_options was reached
AbortedBeforeParse == Legacy /\ pc = "raised" /\ ~Has(params, "date_list")

\* C11: a fetch fault on one URL does not abort the run, the later URLs are
\* still fetched and the later stages run, and the faulted expiry is a key of
\* params['url_except_dict'].
C11_FetchFaultIsolated ==
    \A d \in Faulted :
        /\ ~AbortedBeforeParse
        /\ Has(params, "url_except_dict") => Has(params["url_except_dict"], d)

\* the entry is a date that parses to the key and a token of 10 digits
\* that the URL is built from
EntryOf(item, e) ==
    /\ e.token.len = 10
    /\ e.token.isdigit
    /\ parse(e.date).ok
    /\ strftime(parse(e.date).value) = item.key
    /\ item.value = PageUrl(params["ticker"], e.token)

\* C16: every URL of params['url_dict'] is built from a token of exactly 10
\* digits, and every key is mapped to the URL built from the token of the
\* very date-picker entry the key was parsed from.
C16_UrlFromTokenOfSameEntry ==
    Legacy =>
        \A i \in 1..Len(params["url_dict"]) :
            \E j \in 1..Len(params["html_doc"]) :
                EntryOf(params["url_dict"][i], params["html_doc"][j])

\* what _extract_web_data did to the outside: the events after the request
\* for the root page
PageEvents == IF Legacy THEN Tail(events) ELSE <<>>

\* the number of page requests made
Requested == Cardinality({i \in 1..Len(PageEvents) : PageEvents[i].op = "get"})

\* C17: every URL of params['url_dict'] is requested exactly once, in the
\* order of url_dict, and every request but the last made is followed, before
\* the next one, by exactly one timed wait: params['wait'] seconds after a
\* page that was fetched, 5 after a fault.
C17_EachUrlOnceWithOneWait ==
    Legacy =>
        /\ pc # "fetch" => Requested = Len(params["url_dict"])
        /\ Requested <= Len(params["url_dict"])
        /\ \A i \in 1..Requested :
            /\ PageEvents[2 * i - 1].op = "get"
            /\ PageEvents[2 * i - 1].url = params["url_dict"][i].value
            /\ i < Requested =>
                /\ PageEvents[2 * i].op = "sleep"
                /\ PageEvents[2 * i].secs =
                        IF chains[params["url_dict"][i].key].fault = "none"
                        THEN params["wait"] ELSE 5

\* the provider's name of a column of a page's table
ProviderName(c) ==
    CASE c = "Strike" -> "strike"
      [] c = "Contract Name" -> "contractSymbol"
      [] OTHER -> c

\* the same rows as the API gives them
ProviderFrame(t) ==
    [columns |-> {ProviderName(c) : c \in t.columns},
     rows |-> [i \in 1..Len(t.rows) |->
                 [c \in {ProviderName(k) : k \in t.columns} |->
                     t.rows[i][CHOOSE k \in t.columns : ProviderName(k) = c]]]]

\* the (calls, puts) pair of a page of two tables, as an option chain
AsChain(page) ==
    [raised |-> FALSE, calls |-> ProviderFrame(page[1]), puts |-> ProviderFrame(page[2])]

\* the rows of a table, each by its side and its strike
SideAndStrike(df, strike) ==
    [i \in 1..Len(df.rows) |-> <<df.rows[i]["Option Type"], df.rows[i][strike]>>]

\* the rows the legacy run added for the expiry
LegacyRowsFor(d) ==
    SideAndStrike(
        [columns |-> tables["full_data"].columns,
         rows |-> SelectSeq(tables["full_data"].rows,
                            LAMBDA r : r["Expiry"] = to_date(d))],
        "Strike")

\* the expiries of the legacy run whose page holds a calls and a puts table
TwoTableDates ==
    {d \in DOMAIN params["option_dict"] : Len(chains[d].page) = 2}

\* C18: on the same (calls, puts) pair the loop of _process_options and the
\* body of the loop of get_option_data take the same branch: they add the
\* same rows to tables['full_data'] and make the same change to
\* params['opt_except_list'].
C18_SameBranchAsApiFetcher ==
    (Legacy /\ pc = "returned") =>
        \A d \in TwoTableDates :
            LET api == expiry_body(EmptyFrame, d, AsChain(chains[d].page))
            IN  /\ LegacyRowsFor(d) = SideAndStrike(api.full_data, "strike")
                /\ (\E i \in 1..Len(params["opt_except_list"]) :
                        params["opt_except_list"][i] = d) <=> api.failed

\* the i-th table of the page is there, with a Strike column and a row
Parseable(page, i) ==
    /\ i <= Len(page)
    /\ "Strike" \in page[i].columns
    /\ Len(page[i].rows) > 0

\* the expiries whose page was fetched
Fetched == IF Legacy THEN {d \in DOMAIN chains : chains[d].fault = "none"} ELSE {}

\* the run left by an exception raised in _process_options
AbortedInParse == Legacy /\ pc = "raised" /\ Has(params, "date_list")

\* C19: a page without a table, with a table without rows or with a table
\* without a Strike column never aborts the run, and an expiry for which
\* neither the calls table nor the puts table can be read is in
\* params['opt_except_list'] when the run returns.
C19_ParseFaultIsolated ==
    /\ ~AbortedInParse
    /\ (Legacy /\ pc = "returned") =>
        \A d \in Fetched :
            (~Parseable(chains[d].page, 1) /\ ~Parseable(chains[d].page, 2)) =>
                \E i \in 1..Len(params["opt_except_list"]) :
                    params["opt_except_list"][i] = d

\* the number of times the rename was applied
Renames == Cardinality({i \in 1..Len(events) : events[i].op = "rename"})

\* a run of get_option_data
ApiRun == pc \in {"loop", "returned"} /\ Has(params, "extracted_spot")

\* the provider's names that the rename maps
ProviderNames ==
    { "lastPrice", "bid", "ask", "lastTradeDate", "strike", "openInterest",
      "volume", "impliedVolatility" }

\* the column names of the tables of the pages fetched
PageColumns ==
    UNION { UNION {chains[d].page[i].columns : i \in 1..Len(chains[d].page)} :
            d \in Fetched }

Precomputed == Has(params, "precomputed_data")

\* C12: on the precomputed path the Discount Rate of every row of
\* tables['full_data'] is that row's 'Smooth Discount Rate' when
\* params['discount_type'] is 'smooth' and its 'Direct Discount Rate' for
\* every other flag, row for row, and the fetch path is not run: no quote
\* snapshot, expiry list or option chain is asked for.
C12_DiscountRateFollowsFlag ==
    Precomputed =>
        /\ pc \in {"transform", "raised"}
        /\ info = EmptyDict
        /\ chains = EmptyDict
        /\ events = <<>>
        /\ ~Has(params, "date_list")
        /\ Len(params["precomputed_data"].rows) > 0 =>
            /\ pc = "transform"
            /\ Has(tables, "full_data")
            /\ "Discount Rate" \in tables["full_data"].columns
            /\ Len(tables["full_data"].rows) = Len(params["precomputed_data"].rows)
            /\ \A i \in 1..Len(tables["full_data"].rows) :
                /\ tables["full_data"].rows[i]["Contract Symbol"]
                        = params["precomputed_data"].rows[i]["Contract Symbol"]
                /\ tables["full_data"].rows[i]["Discount Rate"]
                        = IF params["discount_type"] = "smooth"
                          THEN params["precomputed_data"].rows[i]["Smooth Discount Rate"]
                          ELSE params["precomputed_data"].rows[i]["Direct Discount Rate"]

C12_Witness ==
    /\ Precomputed
    /\ pc = "transform"
    /\ params["discount_type"] = "flat"
    /\ Len(tables["full_data"].rows) >= 2
    /\ tables["full_data"].rows[1]["Discount Rate"]
            # tables["full_data"].rows[2]["Discount Rate"]

\* the dates one rule yields over [today, today + 2500 days]
RuleDates(rule) ==
    holidays({rule}, Ordinal(env["today"]), Ordinal(env["today"]) + HorizonDays)

\* the federal rules of the installed pandas
FederalRules == {env["federal_rules"][i] : i \in 1..Len(env["federal_rules"])}

\* C13: params['trade_holidays'] holds exactly the dates that the federal
\* rules other than Columbus Day and Veterans Day, and Good Friday, yield
\* over [today, today + 2500 days]: no Columbus Day or Veterans Day date, and
\* every date of every other federal rule, Labor Day among them.
C13_CalendarDropsColumbusAndVeterans ==
    Has(params, "trade_holidays") =>
        params["trade_holidays"] =
            UNION { RuleDates(r) :
                      r \in (FederalRules \ {"Columbus Day", "Veterans Day"})
                                \cup {"Good Friday"} }

(***************************************************************************)
(* Claims about visualize.                                                 *)
(***************************************************************************)
\* the data_dict key of a surface type
SurfaceKey(surfacetype) ==
    CASE surfacetype = "trisurf" -> "trisurf_data_dict"
      [] surfacetype = "mesh" -> "mesh_data_dict"
      [] surfacetype = "spline" -> "spline_data_dict"
      [] surfacetype = "svi" -> "svi_data_dict"
      [] surfacetype = "interactive_mesh" -> "int_mesh_data_dict"
      [] surfacetype = "interactive_spline" -> "int_spline_data_dict"
      [] surfacetype = "interactive_svi" -> "int_svi_data_dict"
      [] OTHER -> "none"

\* the call did exactly this: one run of the method, its result stored
Ran(method, key) ==
    /\ events = <<Event(method, <<>>, 0)>>
    /\ Has(data_dict, key)
    /\ data_dict[key] = method

\* C14: after a call of visualize, graphtype 'line' has run line_graph,
\* 'scatter' has run scatter_3d, 'surface' with one of the seven surface
\* types has run surface_3d once and stored the result under the key of the
\* surface type, and any other graphtype has run no GraphData method and
\* printed the message, whatever the surfacetype.
C14_DispatchAsDocumented ==
    pc = "visualized" =>
        /\ params["graphtype"] = "line" => Ran("line_graph", "line_data_dict")
        /\ params["graphtype"] = "scatter" => Ran("scatter_3d", "scatter_data_dict")
        /\ (/\ params["graphtype"] = "surface"
            /\ SurfaceKey(params["surfacetype"]) # "none") =>
                Ran("surface_3d", SurfaceKey(params["surfacetype"]))
        /\ params["graphtype"] \notin {"line", "scatter", "surface"} =>
                events = <<Event("print", <<>>, 0)>>

(***************************************************************************)
(* Two invocations in a row.  A fetcher runs from a fresh context, then    *)
(* the caller invokes the same fetcher again on the params and tables the  *)
(* first invocation left, and the provider answers every request of the    *)
(* second invocation as it answered the first.                             *)
(***************************************************************************)

\* a fresh context on a machine whose pandas raises, for df['Strike'][0] on
\* a table without rows, one of the two exceptions
Machines == { [empty_lookup |-> e] : e \in EmptyLookups }

FreshOn(machine) ==
    /\ pc = "idle"
    /\ error = "none"
    /\ info = EmptyDict
    /\ chains = EmptyDict
    /\ params = [ticker |-> "^SPX", wait |-> 1]
    /\ tables = EmptyDict
    /\ events = <<>>
    /\ data_dict = EmptyDict
    /\ env = machine
    /\ first = EmptyDict

Fresh == \E machine \in Machines : FreshOn(machine)

Again == Has(first, "pc")

\* the fetcher of the first invocation
FirstByApi == Has(first.params, "option_dict") /\ ~Has(first.params, "url_dict")

FirstExpiries ==
    IF Has(first.params, "date_list") THEN Len(first.params["date_list"]) ELSE 0

FirstRootRaises == ~Has(first.params, "url_dict")

FirstPicker ==
    IF Has(first.params, "html_doc") THEN first.params["html_doc"] ELSE <<>>

\* the first invocation has returned or raised: the caller keeps params and
\* tables and calls the fetcher again
Reinvoke ==
    /\ pc \in {"returned", "raised"}
    /\ ~Again
    /\ first' = [pc |-> pc, error |-> error, info |-> info, chains |-> chains,
                 params |-> params, tables |-> tables]
    /\ pc' = "idle"
    /\ UNCHANGED <<error, info, chains, params, tables, events, data_dict, env>>

\* the second invocation, each request answered as in the first
BeginAgain == Again /\ FirstByApi /\ Begin(first.info, FirstExpiries)

ProcessExpiryAgain ==
    /\ Again
    /\ pc = "loop"
    /\ Cardinality(Processed) < Len(params["date_list"])
    /\ ProcessExpiry(first.chains[NextExpiry])

ExtractUrlsAgain == Again /\ ~FirstByApi /\ ExtractUrls(FirstRootRaises, FirstPicker)

FetchPageAgain ==
    /\ Again
    /\ pc = "fetch"
    /\ Cardinality(DOMAIN chains) < Len(params["url_dict"])
    /\ FetchPage(first.chains[params["url_dict"][Cardinality(DOMAIN chains) + 1].key])

\* the answers of the provider the first invocation meets: ChainSamples, a
\* chain of calls alone, and a chain whose calls lack the strike field
RerunChains ==
    ChainSamples \cup
    { [raised |-> FALSE,
       calls |-> StrikeFrame("C", <<[type |-> "float", text |-> "100.5"]>>),
       puts |-> StrikeFrame("P", <<>>)],
      [raised |-> FALSE,
       calls |-> NoStrikeFrame("C", 1),
       puts |-> StrikeFrame("P", <<[type |-> "float", text |-> "100.5"]>>)] }

\* the answers to a page request the first invocation meets: the two faults,
\* a page without tables, and pages of one and of two tables
RerunAnswers ==
    { Answer("open", <<>>), Answer("text", <<>>), Answer("none", <<>>),
      Answer("none", <<HtmlTable("C", <<>>)>>),
      Answer("none", <<HtmlTable("C", <<[type |-> "int", text |-> "100"]>>)>>),
      Answer("none", <<HtmlTable("C", <<[type |-> "int", text |-> "100"]>>),
                       HtmlTable("P", <<[type |-> "int", text |-> "100"]>>)>>) }

RerunNext ==
    \/ ~Again /\ \E q \in LoopQuotes, n \in 0..MaxExpiries : Begin(q, n)
    \/ ~Again /\ \E chain \in RerunChains : ProcessExpiry(chain)
    \/ Finish
    \/ ~Again /\ \E raises \in BOOLEAN, es \in PickerSamples : ExtractUrls(raises, es)
    \/ ~Again /\ \E answer \in RerunAnswers : FetchPage(answer)
    \/ ReadWebData
    \/ ProcessOptions(env["empty_lookup"])
    \/ Reinvoke
    \/ BeginAgain
    \/ ProcessExpiryAgain
    \/ ExtractUrlsAgain
    \/ FetchPageAgain

RerunSpec == Fresh /\ [][RerunNext]_vars

(***************************************************************************)
(* Claims about two invocations in a row.                                  *)
(***************************************************************************)

\* the second invocation has returned or raised
RanTwice == Again /\ pc \in {"returned", "raised"}

RowsLeft(t) == IF Has(t, "full_data") THEN t["full_data"].rows ELSE <<>>

FailedLeft(p) == IF Has(p, "opt_except_list") THEN p["opt_except_list"] ELSE <<>>

\* C21: when a fetcher is invoked twice in a row on the same params and
\* tables and the provider answers the second invocation as it answered the
\* first, the second invocation ends as the first did and leaves the table,
\* the failed-expiry list and the per-expiry dict that the first left alone:
\* no row and no failed expiry of the first invocation is carried over.
C21_SecondRunLeavesWhatOneRunLeaves ==
    RanTwice =>
        /\ pc = first.pc
        /\ error = first.error
        /\ tables = first.tables
        /\ FailedLeft(params) = FailedLeft(first.params)
        /\ Has(params, "option_dict") = Has(first.params, "option_dict")
        /\ Has(params, "option_dict") =>
                params["option_dict"] = first.params["option_dict"]

\* a fetcher has run twice and returned, over rows and a failed expiry
C21_Witness ==
    /\ RanTwice
    /\ pc = "returned"
    /\ Len(RowsLeft(first.tables)) > 0
    /\ Len(FailedLeft(first.params)) > 0

====
